---- MODULE Spec2Model ----
(***************************************************************************)
(* Model of src/analyze_team_assessment.py: a Mural export (sticky notes   *)
(* with an id, a background colour, a position and a text) is clustered    *)
(* into groups by build_connection_graph and every group is summarised by  *)
(* main into one Analysis record.                                          *)
(*                                                                         *)
(* A row of the data frame is a record [ID, BG, X, Y, TEXT].  A text is a  *)
(* sequence of one-character strings; pandas.read_csv turns an empty cell  *)
(* into NaN, so the empty sequence stands for NaN (the only non-str text). *)
(* distance() is kept as the squared Euclidean distance: the code only     *)
(* compares distances, and sqrt is strictly increasing.                    *)
(***************************************************************************)
EXTENDS Integers, Sequences, FiniteSets

VARIABLES raw_df, stickies_df, pc, graph, label_proximity, lp_i,
          labels_connected, sorted_ticket_proximity, tp_i, groups,
          sticky_groups, analyses, written

vars == <<raw_df, stickies_df, pc, graph, label_proximity, lp_i,
          labels_connected, sorted_ticket_proximity, tp_i, groups,
          sticky_groups, analyses, written>>

(***************************************************************************)
(* Bounds of the explored inputs.                                          *)
(***************************************************************************)
MaxItems == 3
MaxStack == 3

Coords == {0, 1}

(***************************************************************************)
(* Colours.                                                                *)
(***************************************************************************)
DarkGreenHex == "#459C5B"
LightGreenHex == "#AAED92"
YellowHex == "#FCF281"
OrangeHex == "#FFC061"
RedHex == "#E95E5E"
TeamHex == "#86E6D9"
TopicHex == "#FFFFFF"
OtherHex == "#000000"

color_map(code) ==
    CASE code = "#459C5B" -> "1-DarkGreen"
      [] code = "#AAED92" -> "2-LightGreen"
      [] code = "#FCF281" -> "3-Yellow"
      [] code = "#FFC061" -> "4-Orange"
      [] code = "#E95E5E" -> "5-DarkRed"
      [] code = "#86E6D9" -> "Team-Label"
      [] code = "#FFFFFF" -> "Topic-Label"
      [] OTHER -> code

replace_rgb_codes_with_names(input_df) ==
    [i \in 1..Len(input_df) |->
        [input_df[i] EXCEPT !.BG = color_map(input_df[i].BG)]]

label_texts == {"Team-Label", "Topic-Label"}

ContainsLabelOrCode(bg) ==
    bg \notin {"1-DarkGreen", "2-LightGreen", "3-Yellow", "4-Orange", "5-DarkRed"}
\* 'Label' in bg, over the values a BG Color takes after the replacement:
\* the seven names of color_map and raw hex codes.
ContainsLabel(bg) == bg \in {"Team-Label", "Topic-Label"}

(***************************************************************************)
(* Sequence helpers.                                                       *)
(***************************************************************************)
Range(s) == {s[i] : i \in 1..Len(s)}

RECURSIVE Perms(_)
Perms(S) ==
    IF S = {} THEN {<<>>}
    ELSE UNION {{<<x>> \o p : p \in Perms(S \ {x})} : x \in S}

RECURSIVE Filter(_, _)
\* [x for x in s if x.BG in bgs]
Filter(s, bgs) ==
    IF s = <<>> THEN <<>>
    ELSE IF Head(s).BG \in bgs THEN <<Head(s)>> \o Filter(Tail(s), bgs)
         ELSE Filter(Tail(s), bgs)

RECURSIVE FilterOut(_, _)
\* [x for x in s if x.BG not in bgs]
FilterOut(s, bgs) ==
    IF s = <<>> THEN <<>>
    ELSE IF Head(s).BG \notin bgs THEN <<Head(s)>> \o FilterOut(Tail(s), bgs)
         ELSE FilterOut(Tail(s), bgs)

RECURSIVE Count(_, _)
\* list.count
Count(s, v) ==
    IF s = <<>> THEN 0
    ELSE (IF Head(s) = v THEN 1 ELSE 0) + Count(Tail(s), v)

(***************************************************************************)
(* build_connection_graph: the pure parts.                                 *)
(***************************************************************************)
labels_only(df) == Filter(df, label_texts)
notes_only(df) == FilterOut(df, label_texts)
label_ids(df) == {labels_only(df)[i].ID : i \in 1..Len(labels_only(df))}
note_ids(df) == {notes_only(df)[i].ID : i \in 1..Len(notes_only(df))}
all_ids(df) == {df[i].ID : i \in 1..Len(df)}

RowOf(df, id) == CHOOSE r \in Range(df) : r.ID = id

distance(left, right) ==
    (left.X - right.X) * (left.X - right.X) + (left.Y - right.Y) * (left.Y - right.Y)

\* itertools.product(labels_only, notes_only), as <<distance, label id, note id>>
raw_label_proximity(df) ==
    LET ls == labels_only(df)
        ns == notes_only(df)
    IN [k \in 1..(Len(ls) * Len(ns)) |->
          LET l == ls[((k - 1) \div Len(ns)) + 1]
              n == ns[((k - 1) % Len(ns)) + 1]
          IN <<distance(l, n), l.ID, n.ID>>]

RECURSIVE PairsFrom(_, _, _)
\* combinations(notes_only, r=2) from (i, j) on, as <<distance, left id, right id>>
PairsFrom(ns, i, j) ==
    IF i >= Len(ns) THEN <<>>
    ELSE IF j > Len(ns) THEN PairsFrom(ns, i + 1, i + 2)
    ELSE <<<<distance(ns[i], ns[j]), ns[i].ID, ns[j].ID>>>> \o PairsFrom(ns, i, j + 1)

raw_ticket_proximity(df) == PairsFrom(notes_only(df), 1, 2)

\* sorted(..., key=lambda x: x[0]): the order of the keys
KeyBeforeUnstable(a, b) == a[1] <= b[1]
KeyBefore(a, b) == a[1] < b[1]

\* sorted(...) of tuples: Python's lexicographic tuple order
TupleBeforeByDistanceOnly(a, b) == a[1] < b[1]
TupleBefore(a, b) ==
    \/ a[1] < b[1]
    \/ a[1] = b[1] /\ a[2] < b[2]
    \/ a[1] = b[1] /\ a[2] = b[2] /\ a[3] < b[3]

RECURSIVE InsertByKey(_, _)
\* e goes before the first element it is strictly before (a stable insertion)
InsertByKey(s, e) ==
    IF s = <<>> THEN <<e>>
    ELSE IF KeyBefore(e, Head(s)) THEN <<e>> \o s
         ELSE <<Head(s)>> \o InsertByKey(Tail(s), e)

RECURSIVE SortedByKey(_, _)
SortedByKey(todo, done) ==
    IF todo = <<>> THEN done
    ELSE SortedByKey(Tail(todo), InsertByKey(done, Head(todo)))

RECURSIVE InsertTuple(_, _)
InsertTuple(s, e) ==
    IF s = <<>> THEN <<e>>
    ELSE IF TupleBefore(e, Head(s)) THEN <<e>> \o s
         ELSE <<Head(s)>> \o InsertTuple(Tail(s), e)

RECURSIVE SortedTuples(_, _)
SortedTuples(todo, done) ==
    IF todo = <<>> THEN done
    ELSE SortedTuples(Tail(todo), InsertTuple(done, Head(todo)))

(***************************************************************************)
(* networkx.Graph: nodes in insertion order, edges as node pairs with a    *)
(* kind.  The data attribute of a node is always the row with its id.      *)
(***************************************************************************)
EmptyGraph == [nodes |-> <<>>, edges |-> {}]

add_node(g, id) ==
    IF id \in Range(g.nodes) THEN g
    ELSE [g EXCEPT !.nodes = Append(g.nodes, id)]

add_edge(g, a, b, kind) ==
    LET g2 == add_node(add_node(g, a), b)
    IN [g2 EXCEPT !.edges =
          {e \in g2.edges : e.ends # {a, b}} \cup {[ends |-> {a, b}, kind |-> kind]}]

degree(g, id) == Cardinality({e \in g.edges : id \in e.ends})

RECURSIVE AddNodes(_, _)
AddNodes(g, ns) ==
    IF ns = <<>> THEN g ELSE AddNodes(add_node(g, Head(ns).ID), Tail(ns))

\* min(value for key, value in graph.degree if key not in label_ids)
fewest_connections(g, lids) ==
    LET ds == {degree(g, g.nodes[i]) : i \in {k \in 1..Len(g.nodes) : g.nodes[k] \notin lids}}
    IN CHOOSE d \in ds : \A e \in ds : d <= e

ShouldBreakAtOne(fewest) == fewest = 1
ShouldBreak(fewest) == fewest = 2

AlreadyConnectedNever(label_id, connected) == FALSE
AlreadyConnected(label_id, connected) == label_id \in connected

RECURSIVE Reach(_, _)
Reach(g, seen) ==
    LET next == seen \cup {v \in Range(g.nodes) :
                             \E e \in g.edges : v \in e.ends /\ e.ends \cap seen # {}}
    IN IF next = seen THEN seen ELSE Reach(g, next)

RECURSIVE ComponentsFrom(_, _, _)
ComponentsFrom(g, i, seen) ==
    IF i > Len(g.nodes) THEN <<>>
    ELSE IF g.nodes[i] \in seen THEN ComponentsFrom(g, i + 1, seen)
    ELSE LET c == Reach(g, {g.nodes[i]})
         IN <<c>> \o ComponentsFrom(g, i + 1, seen \cup c)

\* list(nx.connected_components(graph))
connected_components(g) == ComponentsFrom(g, 1, {})

(***************************************************************************)
(* main: the pure parts.                                                   *)
(***************************************************************************)
NoTeamName == <<"no team name attached">>
NoTopic == <<"no topic attached.">>

RECURSIVE rstrip(_)
\* str.rstrip('.')
rstrip(t) ==
    IF t # <<>> /\ t[Len(t)] = "." THEN rstrip(SubSeq(t, 1, Len(t) - 1)) ELSE t

RECURSIVE text_fields(_)
\* note[TEXT].rstrip('.') for note in sticky_group if isinstance(note[TEXT], str)
text_fields(sticky_group) ==
    IF sticky_group = <<>> THEN <<>>
    ELSE IF Head(sticky_group).TEXT # <<>>
         THEN <<rstrip(Head(sticky_group).TEXT)>> \o text_fields(Tail(sticky_group))
         ELSE text_fields(Tail(sticky_group))

RECURSIVE join(_)
\* ". ".join(fields)
join(fields) ==
    IF fields = <<>> THEN <<>>
    ELSE IF Len(fields) = 1 THEN Head(fields)
    ELSE Head(fields) \o <<".", " ">> \o join(Tail(fields))

collect_text(sticky_group) == join(text_fields(sticky_group))

RECURSIVE Texts(_)
\* [node[TEXT] for node in s]
Texts(s) == IF s = <<>> THEN <<>> ELSE <<Head(s).TEXT>> \o Texts(Tail(s))

RECURSIVE Backgrounds(_)
\* [note[BG_COLOR] for note in s]
Backgrounds(s) == IF s = <<>> THEN <<>> ELSE <<Head(s).BG>> \o Backgrounds(Tail(s))

RECURSIVE WithoutLabels(_)
\* [sticky for sticky in s if 'Label' not in sticky[BG_COLOR]]
WithoutLabels(s) ==
    IF s = <<>> THEN <<>>
    ELSE IF ~ContainsLabel(Head(s).BG) THEN <<Head(s)>> \o WithoutLabels(Tail(s))
         ELSE WithoutLabels(Tail(s))

ScoreFlatWeights(darkred, orange, yellow, lightgreen, darkgreen, population) ==
    ((darkred * 0) + (orange * 25) + (yellow * 50) + (lightgreen * 50) + (darkgreen * 100))
        \div population
Score(darkred, orange, yellow, lightgreen, darkgreen, population) ==
    ((darkred * 0) + (orange * 25) + (yellow * 50) + (lightgreen * 75) + (darkgreen * 100))
        \div population

positive_colors == {"1-DarkGreen", "2-LightGreen"}
negative_colors == {"4-Orange", "5-Darkred"}

TeamNameLast(names) == IF names = <<>> THEN NoTeamName ELSE names[Len(names)]
\* [team_name, *extra_names] = names, except ValueError: the fallback
TeamName(names) == IF names = <<>> THEN NoTeamName ELSE Head(names)
\* [topic, *extra_topics] = topics, except ValueError: the fallback
Topic(topics) == IF topics = <<>> THEN NoTopic ELSE Head(topics)

\* The body of the loop of main for one group, from the group's items in
\* the order the group is iterated.  Requires a non-empty note list.
AnalysisOf(sticky_group) ==
    LET team_name == TeamName(Texts(Filter(sticky_group, {"Team-Label"})))
        topic == Topic(Texts(Filter(sticky_group, {"Topic-Label"})))
        notes == WithoutLabels(sticky_group)
        population == Len(notes)
        backgrounds == Backgrounds(notes)
        darkgreen == Count(backgrounds, "1-DarkGreen")
        lightgreen == Count(backgrounds, "2-LightGreen")
        yellow == Count(backgrounds, "3-Yellow")
        orange == Count(backgrounds, "4-Orange")
        darkred == Count(backgrounds, "5-DarkRed")
    IN [team_name |-> team_name,
        topic |-> topic,
        population |-> population,
        score |-> Score(darkred, orange, yellow, lightgreen, darkgreen, population),
        red_text |-> collect_text(Filter(notes, negative_colors)),
        yellow_text |-> collect_text(Filter(notes, {"3-Yellow"})),
        green_text |-> collect_text(Filter(notes, positive_colors))]

RECURSIVE Ascending(_)
Ascending(S) ==
    IF S = {} THEN <<>>
    ELSE LET m == CHOOSE x \in S : \A y \in S : x <= y
         IN <<m>> \o Ascending(S \ {m})

\* The orders in which a label class of a group can be met: any member
\* first.  Only the first label of a class reaches the Analysis record.
AnyFirst(S) ==
    IF S = {} THEN {<<>>} ELSE {<<x>> \o Ascending(S \ {x}) : x \in S}

\* [graph.nodes[node_id]['data'] for node_id in group]: group is a Python
\* set, whose iteration order is not specified.  The code reads the list
\* only through order-preserving filters by colour class (team labels,
\* topic labels, the rest), so the orders are enumerated class by class.
GroupOrders(df, group) ==
    LET teams == {id \in group : RowOf(df, id).BG = "Team-Label"}
        topics == {id \in group : RowOf(df, id).BG = "Topic-Label"}
        rest == (group \ teams) \ topics
    IN {[i \in 1..Len(o) |-> RowOf(df, o[i])] :
          o \in {a \o b \o c : a \in AnyFirst(teams), b \in AnyFirst(topics), c \in Perms(rest)}}

(***************************************************************************)
(* Inputs.  Every family lists rows of a Mural export with unique ids.     *)
(***************************************************************************)
SomeTexts == << <<>>, <<"a">>, <<"b", ".">> >>

AllHex == {DarkGreenHex, LightGreenHex, YellowHex, OrangeHex, RedHex, TeamHex,
           TopicHex, OtherHex}

Fresh ==
    /\ stickies_df = <<>>
    /\ pc = "replace"
    /\ graph = EmptyGraph
    /\ label_proximity = <<>>
    /\ lp_i = 1
    /\ labels_connected = {}
    /\ sorted_ticket_proximity = <<>>
    /\ tp_i = 1
    /\ groups = <<>>
    /\ sticky_groups = <<>>
    /\ analyses = <<>>
    /\ written = <<>>

\* The id of row i of n: ascending, descending or rotated by one.
IdAt(order, i, n) ==
    CASE order = "up" -> i
      [] order = "down" -> n + 1 - i
      [] order = "turned" -> (i % n) + 1

\* Up to MaxItems labels and notes anywhere on the grid, the ids in one of
\* the orders of IdAt.
InitGrid ==
    /\ \E n \in 0..MaxItems :
         \E bg \in [1..n -> {TeamHex, TopicHex, YellowHex}],
            x \in [1..n -> Coords], y \in [1..n -> Coords],
            order \in {"up", "down", "turned"} :
           raw_df = [i \in 1..n |->
                       [ID |-> IdAt(order, i, n), BG |-> bg[i],
                        X |-> x[i], Y |-> y[i], TEXT |-> SomeTexts[(i % 3) + 1]]]
    /\ Fresh

\* Up to MaxItems items of any colour along a line, the texts cycling
\* through SomeTexts from any offset.
InitPalette ==
    /\ \E n \in 0..MaxItems :
         \E bg \in [1..n -> AllHex], shift \in 0..2 :
           raw_df = [i \in 1..n |->
                       [ID |-> i, BG |-> bg[i], X |-> i, Y |-> 0,
                        TEXT |-> SomeTexts[((i + shift) % 3) + 1]]]
    /\ Fresh

\* Three notes, each with a stack of up to MaxStack labels on top of it,
\* the ids ascending or descending in row order.
CrowdSpots == << <<0, 0>>, <<1, 0>>, <<0, 1>> >>

RECURSIVE Stack(_, _, _)
Stack(spot, k, first_id) ==
    IF k = 0 THEN <<>>
    ELSE <<[ID |-> first_id, BG |-> IF k % 2 = 1 THEN TeamHex ELSE TopicHex,
            X |-> CrowdSpots[spot][1], Y |-> CrowdSpots[spot][2],
            TEXT |-> SomeTexts[(first_id % 3) + 1]]>>
         \o Stack(spot, k - 1, first_id + 1)

Crowd(s, color) ==
    [i \in 1..3 |->
       [ID |-> i, BG |-> color, X |-> CrowdSpots[i][1],
        Y |-> CrowdSpots[i][2], TEXT |-> SomeTexts[(i % 3) + 1]]]
    \o Stack(1, s[1], 4)
    \o Stack(2, s[2], 4 + s[1])
    \o Stack(3, s[3], 4 + s[1] + s[2])

InitCrowd ==
    /\ \E s \in [1..3 -> 0..MaxStack], color \in {RedHex, YellowHex},
          order \in {"up", "down"} :
         raw_df = [i \in 1..Len(Crowd(s, color)) |->
                     [Crowd(s, color)[i] EXCEPT
                        !.ID = IdAt(order, Crowd(s, color)[i].ID, Len(Crowd(s, color)))]]
    /\ Fresh

\* Two camps of three notes far from each other, one colour a camp, and up
\* to two labels, each next to one of the camps.
CampSpots == << <<0, 0>>, <<1, 0>>, <<0, 1>>, <<10, 0>>, <<11, 0>>, <<10, 1>> >>
LabelSpots == << <<1, 1>>, <<11, 1>> >>

InitCamps ==
    /\ \E bg \in [1..2 -> {RedHex, LightGreenHex, DarkGreenHex}], k \in 0..2 :
         \E kind \in [1..k -> {TeamHex, TopicHex}], side \in [1..k -> {1, 2}] :
           raw_df = [i \in 1..k |->
                       [ID |-> i, BG |-> kind[i], X |-> LabelSpots[side[i]][1],
                        Y |-> LabelSpots[side[i]][2], TEXT |-> SomeTexts[i + 1]]]
                    \o [i \in 1..6 |->
                       [ID |-> k + i, BG |-> bg[((i - 1) \div 3) + 1], X |-> CampSpots[i][1],
                        Y |-> CampSpots[i][2], TEXT |-> SomeTexts[(i % 3) + 1]]]
    /\ Fresh

\* The scenarios of the specification: four notes on the unit square; a
\* team label "Alpha" with one note "ok".
Square ==
    << [ID |-> 1, BG |-> RedHex, X |-> 0, Y |-> 0, TEXT |-> <<"a">>],
       [ID |-> 2, BG |-> OrangeHex, X |-> 1, Y |-> 0, TEXT |-> <<"b", ".">>],
       [ID |-> 3, BG |-> YellowHex, X |-> 0, Y |-> 1, TEXT |-> <<>>],
       [ID |-> 4, BG |-> DarkGreenHex, X |-> 1, Y |-> 1, TEXT |-> <<"c">>] >>

Alpha ==
    << [ID |-> 1, BG |-> TeamHex, X |-> 0, Y |-> 0, TEXT |-> <<"A", "l", "p", "h", "a">>],
       [ID |-> 2, BG |-> DarkGreenHex, X |-> 0, Y |-> 1, TEXT |-> <<"o", "k">>] >>

InitScenario ==
    /\ raw_df \in {Square, Alpha}
    /\ Fresh

Init == InitGrid \/ InitPalette \/ InitCrowd \/ InitCamps \/ InitScenario

(***************************************************************************)
(* The run of main('FullMap.csv').                                         *)
(***************************************************************************)
\* stickies_df = replace_rgb_codes_with_names(drop_unused_columns(raw))
ReplaceRgbCodes ==
    /\ pc = "replace"
    /\ stickies_df' = replace_rgb_codes_with_names(raw_df)
    /\ pc' = "sort_labels"
    /\ UNCHANGED <<raw_df, graph, label_proximity, lp_i, labels_connected,
                   sorted_ticket_proximity, tp_i, groups, sticky_groups,
                   analyses, written>>

\* build_connection_graph, up to the first loop
SortLabelProximity ==
    /\ pc = "sort_labels"
    /\ graph' = EmptyGraph
    /\ label_proximity' = SortedByKey(raw_label_proximity(stickies_df), <<>>)
    /\ labels_connected' = {}
    /\ lp_i' = 1
    /\ pc' = "phase1"
    /\ UNCHANGED <<raw_df, stickies_df, sorted_ticket_proximity, tp_i, groups,
                   sticky_groups, analyses, written>>

\* one iteration of: for (_, label, note) in label_proximity
LabelStep ==
    /\ pc = "phase1"
    /\ lp_i <= Len(label_proximity)
    /\ LET label_id == label_proximity[lp_i][2]
           note_id == label_proximity[lp_i][3]
       IN IF AlreadyConnected(label_id, labels_connected)
          THEN /\ lp_i' = lp_i + 1
               /\ UNCHANGED <<graph, labels_connected, pc>>
          ELSE /\ labels_connected' = labels_connected \cup {label_id}
               /\ graph' = add_edge(add_node(graph, label_id), label_id, note_id, "labeling")
               /\ lp_i' = lp_i + 1
               /\ pc' = IF Cardinality(labels_connected') = Len(labels_only(stickies_df))
                        THEN "add_notes" ELSE "phase1"
    /\ UNCHANGED <<raw_df, stickies_df, label_proximity, sorted_ticket_proximity,
                   tp_i, groups, sticky_groups, analyses, written>>

\* the first loop runs out of pairs
LabelLoopEnd ==
    /\ pc = "phase1"
    /\ lp_i > Len(label_proximity)
    /\ pc' = "add_notes"
    /\ UNCHANGED <<raw_df, stickies_df, graph, label_proximity, lp_i,
                   labels_connected, sorted_ticket_proximity, tp_i, groups,
                   sticky_groups, analyses, written>>

\* the note nodes and the sorted note pairs
AddNotes ==
    /\ pc = "add_notes"
    /\ graph' = AddNodes(graph, notes_only(stickies_df))
    /\ sorted_ticket_proximity' = SortedTuples(raw_ticket_proximity(stickies_df), <<>>)
    /\ tp_i' = 1
    /\ pc' = "phase2"
    /\ UNCHANGED <<raw_df, stickies_df, label_proximity, lp_i, labels_connected,
                   groups, sticky_groups, analyses, written>>

\* one iteration of: for _, left_id, right_id in sorted_ticket_proximity
ProximityStep ==
    /\ pc = "phase2"
    /\ tp_i <= Len(sorted_ticket_proximity)
    /\ graph' = add_edge(graph, sorted_ticket_proximity[tp_i][2],
                         sorted_ticket_proximity[tp_i][3], "proximity")
    /\ tp_i' = tp_i + 1
    /\ pc' = IF ShouldBreak(fewest_connections(graph', label_ids(stickies_df)))
             THEN "components" ELSE "phase2"
    /\ UNCHANGED <<raw_df, stickies_df, label_proximity, lp_i, labels_connected,
                   sorted_ticket_proximity, groups, sticky_groups, analyses, written>>

\* the second loop runs out of pairs
ProximityLoopEnd ==
    /\ pc = "phase2"
    /\ tp_i > Len(sorted_ticket_proximity)
    /\ pc' = "components"
    /\ UNCHANGED <<raw_df, stickies_df, graph, label_proximity, lp_i,
                   labels_connected, sorted_ticket_proximity, tp_i, groups,
                   sticky_groups, analyses, written>>

\* groups = list(nx.connected_components(graph))
Components ==
    /\ pc = "components"
    /\ groups' = connected_components(graph)
    /\ pc' = "summarize"
    /\ UNCHANGED <<raw_df, stickies_df, graph, label_proximity, lp_i,
                   labels_connected, sorted_ticket_proximity, tp_i,
                   sticky_groups, analyses, written>>

\* one iteration of: for number, group in enumerate(groups).  The integer
\* division raises ZeroDivisionError for an empty note list, which nothing
\* catches.
Summarize ==
    /\ pc = "summarize"
    /\ Len(analyses) < Len(groups)
    /\ \E sticky_group \in GroupOrders(stickies_df, groups[Len(analyses) + 1]) :
         /\ sticky_groups' = Append(sticky_groups, sticky_group)
         /\ IF Len(WithoutLabels(sticky_group)) = 0
            THEN /\ pc' = "ZeroDivisionError"
                 /\ UNCHANGED analyses
            ELSE /\ analyses' = Append(analyses, AnalysisOf(sticky_group))
                 /\ UNCHANGED pc
    /\ UNCHANGED <<raw_df, stickies_df, graph, label_proximity, lp_i,
                   labels_connected, sorted_ticket_proximity, tp_i, groups, written>>

\* writer.writerows(asdict(x) for x in analyses)
WriteRows ==
    /\ pc = "summarize"
    /\ Len(analyses) = Len(groups)
    /\ written' = analyses
    /\ pc' = "done"
    /\ UNCHANGED <<raw_df, stickies_df, graph, label_proximity, lp_i,
                   labels_connected, sorted_ticket_proximity, tp_i, groups,
                   sticky_groups, analyses>>

Next ==
    \/ ReplaceRgbCodes
    \/ SortLabelProximity
    \/ LabelStep
    \/ LabelLoopEnd
    \/ AddNotes
    \/ ProximityStep
    \/ ProximityLoopEnd
    \/ Components
    \/ Summarize
    \/ WriteRows

Spec == Init /\ [][Next]_vars

(***************************************************************************)
(* Properties.                                                             *)
(***************************************************************************)
\* build_connection_graph has just returned its graph
Built == pc = "components"
\* the first loop of build_connection_graph is over, the graph not yet used
Attached == pc \in {"add_notes", "phase2", "components"}

NoteIds == note_ids(stickies_df)
LabelIds == label_ids(stickies_df)
Row(id) == RowOf(stickies_df, id)

Joined(a, b) == \E e \in graph.edges : e.ends = {a, b} /\ e.kind = "proximity"
AllNotesHaveTwo == \A n \in NoteIds : degree(graph, n) >= 2
AllPairsJoined == \A a, b \in NoteIds : a # b => Joined(a, b)

\* C1: with at least two notes, once the second loop is over either every
\* note has degree >= 2 (labeling and proximity edges counted) or every
\* pair of notes is joined by a proximity edge.
C1_MinDegreeOrExhausted ==
    (Built /\ Cardinality(NoteIds) >= 2) => (AllNotesHaveTwo \/ AllPairsJoined)

\* the loop stopped early: every note has two edges, some pair is not joined
C1_Witness ==
    /\ Built
    /\ Cardinality(NoteIds) >= 3
    /\ AllNotesHaveTwo
    /\ ~AllPairsJoined

EdgesAt(id) == {e \in graph.edges : id \in e.ends}

\* C2: with at least one note, after the first loop every label has
\* exactly one edge, a labeling edge to a note at minimal distance from the
\* label, and the second loop leaves it so.
C2_LabelHasOneNearestNote ==
    (Attached /\ NoteIds # {}) =>
        \A l \in LabelIds :
            /\ Cardinality(EdgesAt(l)) = 1
            /\ \A e \in EdgesAt(l) :
                 /\ e.kind = "labeling"
                 /\ \E n \in NoteIds :
                      /\ e.ends = {l, n}
                      /\ \A m \in NoteIds :
                           distance(Row(l), Row(n)) <= distance(Row(l), Row(m))

\* a finished run with a label that had a nearer and a farther note, and
\* proximity edges added after its attachment
C2_Witness ==
    /\ Built
    /\ \E e \in graph.edges : e.kind = "proximity"
    /\ \E l \in LabelIds : \E n, m \in NoteIds :
         /\ distance(Row(l), Row(n)) < distance(Row(l), Row(m))
         /\ [ends |-> {l, n}, kind |-> "labeling"] \in graph.edges
         /\ degree(graph, l) = 1

\* C3: the nodes of the returned graph are the ids of all the items, so a
\* label of an input without notes is an isolated node.
C3_NodesAreAllItems ==
    Built => Range(graph.nodes) = all_ids(stickies_df)

Rank(code) ==
    CASE code = RedHex -> 0
      [] code = OrangeHex -> 25
      [] code = YellowHex -> 50
      [] code = LightGreenHex -> 75
      [] code = DarkGreenHex -> 100

ContentHex == {RedHex, OrangeHex, YellowHex, LightGreenHex, DarkGreenHex}
RawColor(id) == RowOf(raw_df, id).BG
\* the notes of a group, by the colour codes of the export
GroupNotes(group) == {id \in group : RawColor(id) \notin {TeamHex, TopicHex}}

RECURSIVE RankSum(_)
RankSum(S) ==
    IF S = {} THEN 0
    ELSE LET x == CHOOSE y \in S : TRUE IN Rank(RawColor(x)) + RankSum(S \ {x})

\* C4: for a group with notes, all of the five content colours, the score
\* is floor(sum of the ranks / population), lies in 0..100, is 100 when all
\* notes are DarkGreen and 0 when all are Red.
C4_ScoreIsMeanRank ==
    \A i \in 1..Len(analyses) :
        LET notes == GroupNotes(groups[i])
        IN (notes # {} /\ \A n \in notes : RawColor(n) \in ContentHex) =>
             /\ analyses[i].score = RankSum(notes) \div Cardinality(notes)
             /\ analyses[i].score \in 0..100
             /\ (\A n \in notes : RawColor(n) = DarkGreenHex) => analyses[i].score = 100
             /\ (\A n \in notes : RawColor(n) = RedHex) => analyses[i].score = 0

\* the scenario of the four notes on the unit square: one group, score 43
C4_Witness ==
    /\ pc = "done"
    /\ raw_df = Square
    /\ Len(written) = 1
    /\ written[1].population = 4
    /\ written[1].score = 43

\* C5: the three texts of a record split the notes of the group by colour:
\* green_text from the LightGreen and DarkGreen notes, yellow_text from the
\* Yellow notes, red_text from the Red and Orange notes.
C5_TextsPartitionByColor ==
    \A i \in 1..Len(analyses) :
        LET notes == WithoutLabels(sticky_groups[i])
        IN /\ analyses[i].green_text =
                collect_text(Filter(notes, {"2-LightGreen", "1-DarkGreen"}))
           /\ analyses[i].yellow_text = collect_text(Filter(notes, {"3-Yellow"}))
           /\ analyses[i].red_text =
                collect_text(Filter(notes, {"5-DarkRed", "4-Orange"}))

TeamLabelsOf(group) == {id \in group : RawColor(id) = TeamHex}
TopicLabelsOf(group) == {id \in group : RawColor(id) = TopicHex}
\* the first item of the given colour in the group as it was iterated
FirstOf(items, bg) ==
    items[CHOOSE k \in 1..Len(items) :
            items[k].BG = bg /\ \A j \in 1..(k - 1) : items[j].BG # bg]

\* C6: team_name is the text of the group's only Team-Label, the fallback
\* when there is none, the text of the first one when there are several;
\* likewise topic from the Topic-Labels; and every group iterated has its
\* record.
C6_LabelResolution ==
    /\ Len(analyses) = Len(sticky_groups)
    /\ \A i \in 1..Len(analyses) :
         LET teams == TeamLabelsOf(groups[i])
             topics == TopicLabelsOf(groups[i])
         IN /\ teams = {} => analyses[i].team_name = <<"no team name attached">>
            /\ \A t \in teams :
                 Cardinality(teams) = 1 => analyses[i].team_name = RowOf(raw_df, t).TEXT
            /\ Cardinality(teams) > 1 =>
                 analyses[i].team_name = FirstOf(sticky_groups[i], "Team-Label").TEXT
            /\ topics = {} => analyses[i].topic = <<"no topic attached.">>
            /\ \A t \in topics :
                 Cardinality(topics) = 1 => analyses[i].topic = RowOf(raw_df, t).TEXT
            /\ Cardinality(topics) > 1 =>
                 analyses[i].topic = FirstOf(sticky_groups[i], "Topic-Label").TEXT

\* a written record of a group with two team labels of different texts and
\* no topic label
C6_Witness ==
    /\ pc = "done"
    /\ \E i \in 1..Len(written) :
         /\ \E a, b \in TeamLabelsOf(groups[i]) :
              RowOf(raw_df, a).TEXT # RowOf(raw_df, b).TEXT
         /\ TopicLabelsOf(groups[i]) = {}
         /\ written[i].team_name = FirstOf(sticky_groups[i], "Team-Label").TEXT
         /\ written[i].topic = NoTopic

\* C8: after a proximity edge that leaves every note with degree >= 2, the
\* second loop adds no further edge.
C8_StopsAtTwo ==
    ~(/\ pc = "phase2"
      /\ tp_i > 1
      /\ tp_i <= Len(sorted_ticket_proximity)
      /\ AllNotesHaveTwo)

IndexIn(s, e) == CHOOSE k \in 1..Len(s) : s[k] = e

\* pairs of equal distance keep the order of their enumeration
KeepsEnumerationOrder(sorted, raw) ==
    \A i, j \in 1..Len(sorted) :
        (i < j /\ sorted[i][1] = sorted[j][1]) =>
            IndexIn(raw, sorted[i]) < IndexIn(raw, sorted[j])

\* pairs of equal distance are in ascending order of (left id, right id)
OrderedByIds(sorted) ==
    \A i, j \in 1..Len(sorted) :
        (i < j /\ sorted[i][1] = sorted[j][1]) =>
            \/ sorted[i][2] < sorted[j][2]
            \/ sorted[i][2] = sorted[j][2] /\ sorted[i][3] < sorted[j][3]

\* the lists are final once sorted: each is looked at as its loop starts
Phase1Sorted == pc = "phase1" /\ lp_i = 1
Phase2Sorted == pc = "phase2" /\ tp_i = 1

\* C9 as stated: in both loops pairs of equal distance are processed in
\* the order of their enumeration from the input.
C9_BothStableByInputOrder ==
    /\ Phase1Sorted =>
         KeepsEnumerationOrder(label_proximity, raw_label_proximity(stickies_df))
    /\ Phase2Sorted =>
         KeepsEnumerationOrder(sorted_ticket_proximity, raw_ticket_proximity(stickies_df))

\* C9 amended: the first loop processes pairs of equal distance in the
\* order of itertools.product(labels, notes); the second loop processes
\* them in ascending order of (left id, right id).
C9_StableThenByIds ==
    /\ Phase1Sorted =>
         KeepsEnumerationOrder(label_proximity, raw_label_proximity(stickies_df))
    /\ Phase2Sorted => OrderedByIds(sorted_ticket_proximity)

HasTie(sorted) ==
    \E i, j \in 1..Len(sorted) : i < j /\ sorted[i][1] = sorted[j][1]

\* both lists have pairs of equal distance, and the second list does not
\* keep the enumeration order
C9_Witness ==
    /\ Phase2Sorted
    /\ HasTie(label_proximity)
    /\ HasTie(sorted_ticket_proximity)
    /\ ~KeepsEnumerationOrder(sorted_ticket_proximity, raw_ticket_proximity(stickies_df))

\* C10: every connected component of the returned graph has a note, every
\* record has population >= 1 and the division never fails.
C10_EveryGroupHasANote ==
    /\ \A i \in 1..Len(groups) : groups[i] \cap NoteIds # {}
    /\ \A i \in 1..Len(analyses) : analyses[i].population >= 1
    /\ pc # "ZeroDivisionError"

\* a finished run with two groups, labels included, and a record for each
C10_Witness ==
    /\ pc = "done"
    /\ Len(groups) >= 2
    /\ LabelIds # {}
    /\ Len(written) = Len(groups)

====
